---- MODULE Spec2Model ----
(***************************************************************************)
(* The spatial hash grid of server/world/spatial.go: a map from GridCell   *)
(* to a slice of entity handles, behind one RWMutex.                       *)
(*                                                                         *)
(* A coordinate of a position (a float64 in the code) is an integer count  *)
(* of 1/Scale blocks, so that positions between two whole blocks exist and *)
(* the conversion int32(pos[i]) really truncates.                          *)
(***************************************************************************)
EXTENDS Integers, Sequences, FiniteSets, TLC

\* ------------------------------------------------------------------ bounds
Scale == 2          \* coordinate resolution: units per block
MaxCoord == 5       \* the far handle position is MaxCoord units from the origin
MaxCellSize == 2    \* the grid is built with a cell size in 1..MaxCellSize
MaxChunks == 2      \* QueryChunks is given at most MaxChunks chunk positions
MaxRadius == 3      \* the largest radius given to QueryRadius (blocks)
MaxMisuse == 2      \* state-changing calls followed from the first contract breach on
MaxEntries == 2     \* concurrent callers stop adding at MaxEntries slots in the grid
MaxStray == 2       \* cells a loop of QueryNearby is followed through outside its range

\* The largest and the smallest int32, the type of GridCell.X and GridCell.Z.
MaxInt32 == 2147483647
MinInt32 == -MaxInt32 - 1

Handles == {"h1", "h2"}
NoHandle == "none"
Threads == {"t1", "t2"}
NoThread == "nobody"
NoPos == <<>>
Somewhere == <<"?">>
NoRet == "void"

\* Positions the caller gives to handles (mgl64.Vec3 is <<x, y, z>>): one
\* unit either side of the origin on the x axis, and a far point with a
\* negative x and a positive z.
Positions == {<<-1, 0, 0>>, <<1, 0, 0>>, <<-MaxCoord, 0, MaxCoord>>}

\* Query boxes <<min, max>>: their x corners lie beyond and between the
\* handle positions in either order, their z and y ranges hold the handles'
\* z and y or are empty.
BoxCoords == {-(MaxCoord + 1), 0, MaxCoord + 1}
Boxes ==
    {<< <<x0, y0, -1>>, <<x1, 1, z1>> >> :
        x0 \in BoxCoords, x1 \in BoxCoords, y0 \in {-1, 1}, z1 \in {-1, MaxCoord + 1}}

VARIABLES
    cellSize,   \* g.cellSize
    cells,      \* g.cells: a function from the keys of the map to buckets
    pos,        \* handle.data.Pos of every handle, owned by the caller
    lastPos,    \* history: the position supplied at the handle's last Add/Update
    contract,   \* history: the caller has respected the contract since Clear
    misuse,     \* history: mutating calls since the contract was first broken
    last,       \* history: the last call, its handle and what it returned
    mu,         \* g.mu: the thread holding the write lock, the threads holding read locks
    pc,         \* where every thread is in its call
    call,       \* the arguments and the locals of every thread's call
    committed   \* history: the map when the write lock was last released

vars == <<cellSize, cells, pos, lastPos, contract, misuse, last, mu, pc, call, committed>>

\* One caller, one call at a time: the threads stay idle.
Sequential == UNCHANGED <<mu, pc, call, committed>>

\* ------------------------------------------------------------- arithmetic
\* Go's integer division truncates toward zero.
Quot(a, b) == IF a >= 0 THEN a \div b ELSE -((-a) \div b)

\* (a variant that rounds the fraction down)
ToInt32Floor(c) == c \div Scale

\* int32(f) of a float64 f: the fraction is dropped, toward zero.
ToInt32(c) == Quot(c, Scale)

\* math.Floor(f / size) for a coordinate c and a cell size in blocks.
FloorDiv(c, size) == c \div (Scale * size)

\* ---------------------------------------------------------------- the map
EmptyMap == [c \in {} |-> <<>>]

\* g.cells[cell] read: the nil slice for a missing key.
MapGet(m, cell) == IF cell \in DOMAIN m THEN m[cell] ELSE <<>>

\* g.cells[cell] = bucket
MapSet(m, cell, bucket) ==
    [c \in DOMAIN m \cup {cell} |-> IF c = cell THEN bucket ELSE m[c]]

\* ------------------------------------------------------------ cellForPos
\* (a variant that rounds toward minus infinity)
cellForPosFloor(p) == <<FloorDiv(p[1], cellSize), FloorDiv(p[3], cellSize)>>

cellForPos(p) == <<Quot(ToInt32(p[1]), cellSize), Quot(ToInt32(p[3]), cellSize)>>

cellForChunkPos(cp) == <<cp[1], cp[2]>>

\* The index of the first slot of bucket holding h, 0 if there is none:
\* the range loop with its h == handle test.
IndexOf(bucket, h) ==
    IF \E i \in 1..Len(bucket) : bucket[i] = h
    THEN CHOOSE i \in 1..Len(bucket) :
            bucket[i] = h /\ \A j \in 1..(i - 1) : bucket[j] # h
    ELSE 0

\* append(handles[:i], handles[i+1:]...)
Cut(bucket, i) == SubSeq(bucket, 1, i - 1) \o SubSeq(bucket, i + 1, Len(bucket))

\* (a variant that finds nothing to cut)
RemoveFromNothing(m, cell, h) == m

\* (a variant that cuts the slot and everything after it)
RemoveFromTail(m, cell, h) ==
    LET handles == MapGet(m, cell)
        i == IndexOf(handles, h)
    IN  IF i = 0 THEN m ELSE MapSet(m, cell, SubSeq(handles, 1, i - 1))

\* (a variant that cuts the last slot holding h instead of the first)
RemoveFromLast(m, cell, h) ==
    LET handles == MapGet(m, cell)
        slots == {i \in 1..Len(handles) : handles[i] = h}
    IN  IF slots = {} THEN m
        ELSE MapSet(m, cell, Cut(handles, CHOOSE i \in slots : \A j \in slots : j <= i))

\* (a variant that looks for h in the other buckets when cell's has none)
RemoveFromWherever(m, cell, h) ==
    LET holders == {c \in DOMAIN m : IndexOf(m[c], h) # 0}
    IN  IF holders = {} THEN m
        ELSE LET c == IF cell \in holders THEN cell ELSE CHOOSE k \in holders : TRUE
             IN  MapSet(m, c, Cut(m[c], IndexOf(m[c], h)))

\* The loop of Remove and of Update: the first slot holding h is cut out of
\* the bucket of cell; the map is untouched when no slot holds it.
RemoveFrom(m, cell, h) ==
    LET handles == MapGet(m, cell)
        i == IndexOf(handles, h)
    IN  IF i = 0 THEN m ELSE MapSet(m, cell, Cut(handles, i))

\* (a variant that assigns a bucket of one instead of appending)
AppendToAlone(m, cell, h) == MapSet(m, cell, <<h>>)

\* g.cells[cell] = append(g.cells[cell], handle)
AppendTo(m, cell, h) == MapSet(m, cell, Append(MapGet(m, cell), h))

\* ----------------------------------------------------------------- Count
RECURSIVE SumLen(_, _)
SumLen(m, keys) ==
    IF keys = {} THEN 0
    ELSE LET c == CHOOSE k \in keys : TRUE
         IN  Len(m[c]) + SumLen(m, keys \ {c})

CountOf(m) == SumLen(m, DOMAIN m)

\* --------------------------------------------------------------- queries
\* cube.BBox.Vec3Within: strictly inside on all three axes.
Vec3Within(box, p) ==
    /\ p[1] > box[1][1] /\ p[1] < box[2][1]
    /\ p[3] > box[1][3] /\ p[3] < box[2][3]
    /\ p[2] > box[1][2] /\ p[2] < box[2][2]

\* cube.Box: corners swapped per axis so that the box is well formed.
Min2(a, b) == IF a <= b THEN a ELSE b
Max2(a, b) == IF a <= b THEN b ELSE a
Box(x0, y0, z0, x1, y1, z1) ==
    << <<Min2(x0, x1), Min2(y0, y1), Min2(z0, z1)>>,
       <<Max2(x0, x1), Max2(y0, y1), Max2(z0, z1)>> >>

\* (a variant whose loops stop before maxCell: < where the code has <=)
CellsVisitedShort(minCell, maxCell) ==
    LET nx == maxCell[1] - minCell[1]
        nz == maxCell[2] - minCell[2]
    IN  IF nx <= 0 \/ nz <= 0 THEN <<>>
        ELSE [i \in 1..(nx * nz) |->
                <<minCell[1] + ((i - 1) \div nz), minCell[2] + ((i - 1) % nz)>>]

\* The cells the two nested loops of QueryNearby visit, in visiting order.
CellsVisited(minCell, maxCell) ==
    LET nx == maxCell[1] - minCell[1] + 1
        nz == maxCell[2] - minCell[2] + 1
    IN  IF nx <= 0 \/ nz <= 0 THEN <<>>
        ELSE [i \in 1..(nx * nz) |->
                <<minCell[1] + ((i - 1) \div nz), minCell[2] + ((i - 1) % nz)>>]

\* (a variant that tests the position supplied at the last Add/Update)
RECURSIVE ScanNearbyStored(_, _, _, _)
ScanNearbyStored(m, ps, box, visit) ==
    IF visit = <<>> THEN <<>>
    ELSE LET handles == MapGet(m, Head(visit))
             stored(h) == IF lastPos[h] \in {NoPos, Somewhere} THEN ps[h] ELSE lastPos[h]
         IN  SelectSeq(handles, LAMBDA h : Vec3Within(box, stored(h)))
                \o ScanNearbyStored(m, ps, box, Tail(visit))

\* The loops of QueryNearby over the cells of visit: of every bucket, the
\* handles whose position ps[h], read as the loop goes, is within the box.
RECURSIVE ScanNearby(_, _, _, _)
ScanNearby(m, ps, box, visit) ==
    IF visit = <<>> THEN <<>>
    ELSE LET handles == MapGet(m, Head(visit))
         IN  SelectSeq(handles, LAMBDA h : Vec3Within(box, ps[h]))
                \o ScanNearby(m, ps, box, Tail(visit))

QueryNearbyOf(m, ps, box) ==
    ScanNearby(m, ps, box, CellsVisited(cellForPos(box[1]), cellForPos(box[2])))

\* (a variant without the seen test)
UnseenAll(handles, seen) == handles

\* The inner loop of QueryChunks: the handles of one bucket not yet seen.
RECURSIVE Unseen(_, _)
Unseen(handles, seen) ==
    IF handles = <<>> THEN <<>>
    ELSE IF Head(handles) \in seen THEN Unseen(Tail(handles), seen)
         ELSE <<Head(handles)>> \o Unseen(Tail(handles), seen \cup {Head(handles)})

RECURSIVE ScanChunks(_, _, _)
ScanChunks(m, chunks, seen) ==
    IF chunks = <<>> THEN <<>>
    ELSE LET fresh == Unseen(MapGet(m, cellForChunkPos(Head(chunks))), seen)
         IN  fresh \o ScanChunks(m, Tail(chunks),
                                 seen \cup {fresh[i] : i \in 1..Len(fresh)})

QueryChunksOf(m, chunks) == ScanChunks(m, chunks, {})

\* (a variant that keeps the handles within the Euclidean distance radius)
QueryRadiusRound(m, ps, p, radius) ==
    SelectSeq(QueryNearbyOf(m, ps,
                Box(p[1] - radius * Scale, p[2] - radius * Scale, p[3] - radius * Scale,
                    p[1] + radius * Scale, p[2] + radius * Scale, p[3] + radius * Scale)),
              LAMBDA h : (ps[h][1] - p[1]) * (ps[h][1] - p[1])
                            + (ps[h][2] - p[2]) * (ps[h][2] - p[2])
                            + (ps[h][3] - p[3]) * (ps[h][3] - p[3])
                                <= radius * Scale * radius * Scale)

\* float64(radius) is radius * Scale units.
QueryRadiusOf(m, ps, p, radius) ==
    QueryNearbyOf(m, ps,
        Box(p[1] - radius * Scale, p[2] - radius * Scale, p[3] - radius * Scale,
            p[1] + radius * Scale, p[2] + radius * Scale, p[3] + radius * Scale))

\* ---------------------------------------------------------------- inputs
\* The radii given to QueryRadius: an int32, so a negative one too.
Radii == {-1, 0, MaxRadius}

\* Chunk positions: those of the cells handles can be in, and one more.
ChunkCoords == {<<Quot(ToInt32(p[1]), cellSize), Quot(ToInt32(p[3]), cellSize)>> : p \in Positions}
                    \cup {<<1, 0>>}
ChunkLists == UNION {[1..n -> ChunkCoords] : n \in 0..MaxChunks}

\* --------------------------------------------------------- caller contract
\* Each handle is added at most once before it is removed.
AddRespects(h) == lastPos[h] = NoPos

\* Update is given as oldPos the position of the handle's last Add/Update.
UpdateRespects(h, oldPos) == lastPos[h] # NoPos /\ oldPos = lastPos[h]

\* The handle's position at Remove is that last position.
RemoveRespects(h) == lastPos[h] = NoPos \/ pos[h] = lastPos[h]

NoPositions == [h \in Handles |-> NoPos]

\* Once the contract is broken the history keeps which handles were added
\* and not removed, and no longer where.
Blur(f) == [h \in Handles |-> IF f[h] = NoPos THEN NoPos ELSE Somewhere]

\* The history of a state-changing call: kept while the contract holds;
\* from the first breach on, at most MaxMisuse further calls are followed.
Kept(respects, newLast) ==
    IF contract /\ respects
    THEN /\ lastPos' = newLast
         /\ UNCHANGED <<contract, misuse>>
    ELSE /\ misuse < MaxMisuse
         /\ lastPos' = Blur(newLast)
         /\ contract' = FALSE
         /\ misuse' = misuse + 1

\* The handles added and not yet removed, and whether h is in some bucket.
Added == {h \in Handles : lastPos[h] # NoPos}
Slots(m) == UNION {{<<c, i>> : i \in 1..Len(m[c])} : c \in DOMAIN m}
SlotsOf(m, h) == {s \in Slots(m) : m[s[1]][s[2]] = h}
InGrid(m, h) == SlotsOf(m, h) # {}

\* last.cleared: there was a Clear, and since the last one no Add and no
\* Update that changed cell.
Called(op, h, ret, pre, fresh) ==
    last' = [op |-> op, h |-> h, ret |-> ret, pre |-> pre, fresh |-> fresh,
             cleared |-> IF op = "Clear" THEN TRUE
                         ELSE IF op = "Add" \/ (op = "Update" /\ ret = TRUE) THEN FALSE
                         ELSE last.cleared]

NoCall == [op |-> "none"]

\* ------------------------------------------------------------- operations
Init ==
    /\ cellSize \in 1..MaxCellSize
    /\ cells = EmptyMap
    /\ pos \in [Handles -> Positions]
    /\ lastPos = NoPositions
    /\ contract = TRUE
    /\ misuse = 0
    /\ last = [op |-> "new", h |-> NoHandle, ret |-> NoRet, pre |-> -1, fresh |-> FALSE,
               cleared |-> FALSE]
    /\ mu = [writer |-> NoThread, readers |-> {}]
    /\ pc = [t \in Threads |-> "idle"]
    /\ call = [t \in Threads |-> NoCall]
    /\ committed = EmptyMap

\* The caller moves an entity: handle.data.Pos = p.
SetPos(h, p) ==
    /\ pos[h] # p
    /\ pos' = [pos EXCEPT ![h] = p]
    /\ Kept(TRUE, lastPos)
    /\ Called("SetPos", h, NoRet, -1, FALSE)
    /\ UNCHANGED <<cellSize, cells>>
    /\ Sequential

\* last.pre is Count() before the call, last.fresh that h was in no bucket.
Add(h) ==
    /\ cells' = AppendTo(cells, cellForPos(pos[h]), h)
    /\ Kept(AddRespects(h), [lastPos EXCEPT ![h] = pos[h]])
    /\ Called("Add", h, NoRet, CountOf(cells), ~InGrid(cells, h))
    /\ UNCHANGED <<cellSize, pos>>
    /\ Sequential

\* last.pre is Count() before the Add(h) that was the call before this one,
\* -1 if the call before was something else.
Remove(h) ==
    /\ cells' = RemoveFrom(cells, cellForPos(pos[h]), h)
    /\ Kept(RemoveRespects(h), [lastPos EXCEPT ![h] = NoPos])
    /\ IF last.op = "Add" /\ last.h = h
       THEN Called("Remove", h, NoRet, last.pre, last.fresh)
       ELSE Called("Remove", h, NoRet, -1, FALSE)
    /\ UNCHANGED <<cellSize, pos>>
    /\ Sequential

\* (a variant without the early return for an unchanged cell)
UpdateResultAlways(m, h, oldPos, newPos) ==
    [cells |-> AppendTo(RemoveFrom(m, cellForPos(oldPos), h), cellForPos(newPos), h),
     ret |-> TRUE]

\* (a variant that gives up when the old bucket does not hold the handle)
UpdateResultIfFound(m, h, oldPos, newPos) ==
    LET oldCell == cellForPos(oldPos)
        newCell == cellForPos(newPos)
    IN  IF oldCell = newCell \/ IndexOf(MapGet(m, oldCell), h) = 0
        THEN [cells |-> m, ret |-> FALSE]
        ELSE [cells |-> AppendTo(RemoveFrom(m, oldCell, h), newCell, h), ret |-> TRUE]

\* What Update makes of the map m, and what it returns.
UpdateResult(m, h, oldPos, newPos) ==
    LET oldCell == cellForPos(oldPos)
        newCell == cellForPos(newPos)
    IN  IF oldCell = newCell
        THEN [cells |-> m, ret |-> FALSE]
        ELSE [cells |-> AppendTo(RemoveFrom(m, oldCell, h), newCell, h), ret |-> TRUE]

Update(h, oldPos, newPos) ==
    LET r == UpdateResult(cells, h, oldPos, newPos)
    IN  /\ cells' = r.cells
        /\ Kept(UpdateRespects(h, oldPos),
                [lastPos EXCEPT ![h] = IF @ = NoPos THEN NoPos ELSE newPos])
        /\ Called("Update", h, r.ret, -1, FALSE)
        /\ UNCHANGED <<cellSize, pos>>
        /\ Sequential

\* (a variant that keeps the buckets of the cells with a negative x)
ClearPartly ==
    /\ cells' = [c \in {k \in DOMAIN cells : k[1] < 0} |-> cells[c]]
    /\ lastPos' = NoPositions
    /\ contract' = TRUE
    /\ misuse' = 0
    /\ Called("Clear", NoHandle, NoRet, CountOf(cells), FALSE)
    /\ UNCHANGED <<cellSize, pos>>
    /\ Sequential

\* Every handle is out of the grid: the contract starts afresh. last.pre is
\* Count() before the call.
Clear ==
    /\ cells' = EmptyMap
    /\ lastPos' = NoPositions
    /\ contract' = TRUE
    /\ misuse' = 0
    /\ Called("Clear", NoHandle, NoRet, CountOf(cells), FALSE)
    /\ UNCHANGED <<cellSize, pos>>
    /\ Sequential

Count ==
    /\ Called("Count", NoHandle, CountOf(cells), -1, FALSE)
    /\ UNCHANGED <<cellSize, cells, pos, lastPos, contract, misuse>>
    /\ Sequential

QueryNearby(box) ==
    /\ Called("QueryNearby", NoHandle, QueryNearbyOf(cells, pos, box), -1, FALSE)
    /\ UNCHANGED <<cellSize, cells, pos, lastPos, contract, misuse>>
    /\ Sequential

QueryChunks(chunks) ==
    /\ Called("QueryChunks", NoHandle, QueryChunksOf(cells, chunks), -1, FALSE)
    /\ UNCHANGED <<cellSize, cells, pos, lastPos, contract, misuse>>
    /\ Sequential

QueryRadius(p, radius) ==
    /\ Called("QueryRadius", NoHandle, QueryRadiusOf(cells, pos, p, radius), -1, FALSE)
    /\ UNCHANGED <<cellSize, cells, pos, lastPos, contract, misuse>>
    /\ Sequential

Next ==
    \/ \E h \in Handles, p \in Positions : SetPos(h, p)
    \/ \E h \in Handles : Add(h)
    \/ \E h \in Handles : Remove(h)
    \/ \E h \in Handles, oldPos \in Positions, newPos \in Positions :
            Update(h, oldPos, newPos)
    \/ Clear
    \/ Count
    \/ \E box \in Boxes : QueryNearby(box)
    \/ \E chunks \in ChunkLists : QueryChunks(chunks)
    \/ \E p \in Positions, radius \in Radii : QueryRadius(p, radius)

Spec == Init /\ [][Next]_vars

\* ------------------------------------------------- the calls, step by step
\* Several threads call the grid at once. A call computes its cells, takes
\* the lock, reads or writes the map one bucket at a time, and releases the
\* lock as it returns. Handles stand still; callers stop adding when the
\* grid holds MaxEntries slots.
Adding == {t \in Threads : pc[t] # "idle" /\ call[t].op \in {"Add", "Update"}}
MayAdd == CountOf(cells) + Cardinality(Adding) < MaxEntries

NearbyBoxes ==
    {box \in Boxes : box[1][1] < -MaxCoord /\ box[2][1] >= 0
                        /\ box[1][2] < 0 /\ box[2][3] > MaxCoord}
ChunkPairs == [1..MaxChunks -> {cellForPos(p) : p \in Positions}]

\* The grid has the largest cell size; one handle stands near the origin,
\* the others far from it.
InitThreads ==
    /\ cellSize = MaxCellSize
    /\ cells = EmptyMap
    /\ pos = [h \in Handles |->
                IF h = "h1" THEN <<-1, 0, 0>> ELSE <<-MaxCoord, 0, MaxCoord>>]
    /\ lastPos = NoPositions
    /\ contract = TRUE
    /\ misuse = 0
    /\ last = [op |-> "new", h |-> NoHandle, ret |-> NoRet, pre |-> -1, fresh |-> FALSE,
               cleared |-> FALSE]
    /\ mu = [writer |-> NoThread, readers |-> {}]
    /\ pc = [t \in Threads |-> "idle"]
    /\ call = [t \in Threads |-> NoCall]
    /\ committed = EmptyMap

Begin(t, c, to) ==
    /\ pc[t] = "idle"
    /\ call' = [call EXCEPT ![t] = c]
    /\ pc' = [pc EXCEPT ![t] = to]
    /\ UNCHANGED <<cellSize, cells, pos, lastPos, contract, misuse, last, mu, committed>>

\* Add, lines 52-53: the position is read and the cell computed unlocked.
CallAdd(t, h) ==
    /\ MayAdd
    /\ Begin(t, [op |-> "Add", h |-> h, cell |-> cellForPos(pos[h])], "lock")

\* Remove, lines 63-64.
CallRemove(t, h) ==
    Begin(t, [op |-> "Remove", h |-> h, cell |-> cellForPos(pos[h])], "lock")

\* Update, lines 81-86: with both positions in one cell it returns false
\* at once, and never takes the lock.
CallUpdate(t, h, oldPos, newPos) ==
    IF cellForPos(oldPos) = cellForPos(newPos)
    THEN Begin(t, [op |-> "Update", h |-> h, ret |-> FALSE], "idle")
    ELSE /\ MayAdd
         /\ Begin(t, [op |-> "Update", h |-> h, cell |-> cellForPos(oldPos),
                      newCell |-> cellForPos(newPos)], "lock")

CallClear(t) == Begin(t, [op |-> "Clear"], "lock")

\* QueryNearby, lines 107-108; todo is what is left of the two loops.
CallQueryNearby(t, box) ==
    Begin(t, [op |-> "QueryNearby", box |-> box,
              todo |-> CellsVisited(cellForPos(box[1]), cellForPos(box[2])),
              result |-> <<>>], "rlock")

CallQueryChunks(t, chunks) ==
    Begin(t, [op |-> "QueryChunks", chunks |-> chunks, todo |-> chunks,
              result |-> <<>>], "rlock")

\* Count; visited is the set of keys the range loop has been through.
CallCount(t) ==
    Begin(t, [op |-> "Count", visited |-> {}, result |-> 0], "rlock")

\* (a variant that lets a reader in while the write lock is held)
CanRLockAnyway(t) == TRUE

\* g.mu.RLock() returns when no thread holds the write lock.
CanRLock(t) == mu.writer = NoThread

\* (a variant that lets a writer in whoever holds the lock)
CanLockAnyway(t) == TRUE

\* g.mu.Lock() returns when no thread holds the lock, for reading or writing.
CanLock(t) == mu.writer = NoThread /\ mu.readers = {}

Lock(t) ==
    /\ pc[t] = "lock"
    /\ CanLock(t)
    /\ mu' = [mu EXCEPT !.writer = t]
    /\ pc' = [pc EXCEPT ![t] = "write"]
    /\ UNCHANGED <<cellSize, cells, pos, lastPos, contract, misuse, last, call, committed>>

RLock(t) ==
    /\ pc[t] = "rlock"
    /\ CanRLock(t)
    /\ mu' = [mu EXCEPT !.readers = @ \cup {t}]
    /\ pc' = [pc EXCEPT ![t] = "read"]
    /\ UNCHANGED <<cellSize, cells, pos, lastPos, contract, misuse, last, call, committed>>

\* One assignment to the map by the thread in its write section.
Write(t, op, m, to) ==
    /\ pc[t] = "write"
    /\ call[t].op = op
    /\ cells' = m
    /\ pc' = [pc EXCEPT ![t] = to]
    /\ UNCHANGED <<cellSize, pos, lastPos, contract, misuse, last, mu, call, committed>>

\* Add, line 58.
WriteAdd(t) == Write(t, "Add", AppendTo(cells, call[t].cell, call[t].h), "unlock")

\* Remove, lines 69-75.
WriteRemove(t) == Write(t, "Remove", RemoveFrom(cells, call[t].cell, call[t].h), "unlock")

\* Update, lines 92-98: the handle leaves the old bucket ...
WriteUpdateOld(t) == Write(t, "Update", RemoveFrom(cells, call[t].cell, call[t].h), "append")

\* ... and, line 101, enters the new one.
WriteUpdateNew(t) ==
    /\ pc[t] = "append"
    /\ cells' = AppendTo(cells, call[t].newCell, call[t].h)
    /\ pc' = [pc EXCEPT ![t] = "unlock"]
    /\ UNCHANGED <<cellSize, pos, lastPos, contract, misuse, last, mu, call, committed>>

\* Clear, line 171: clear(g.cells) ...
WriteClear(t) == Write(t, "Clear", EmptyMap, "make")

\* ... and, line 172, a new map.
WriteClearMake(t) ==
    /\ pc[t] = "make"
    /\ cells' = EmptyMap
    /\ pc' = [pc EXCEPT ![t] = "unlock"]
    /\ UNCHANGED <<cellSize, pos, lastPos, contract, misuse, last, mu, call, committed>>

\* The deferred g.mu.Unlock().
Unlock(t) ==
    /\ pc[t] = "unlock"
    /\ mu' = [mu EXCEPT !.writer = IF @ = t THEN NoThread ELSE @]
    /\ committed' = cells
    /\ pc' = [pc EXCEPT ![t] = "idle"]
    /\ call' = [call EXCEPT ![t] = NoCall]
    /\ UNCHANGED <<cellSize, cells, pos, lastPos, contract, misuse, last>>

\* One step of a reader: call[t] becomes c; it goes on reading or, its loop
\* over, is about to return.
Read(t, c, over) ==
    /\ call' = [call EXCEPT ![t] = c]
    /\ pc' = [pc EXCEPT ![t] = IF over THEN "runlock" ELSE "read"]
    /\ UNCHANGED <<cellSize, cells, pos, lastPos, contract, misuse, last, mu, committed>>

Reading(t, op) == pc[t] = "read" /\ call[t].op = op

\* QueryNearby, lines 115-128: one turn of the inner loop, one cell.
ReadNearby(t) ==
    /\ Reading(t, "QueryNearby")
    /\ LET c == call[t]
       IN  IF c.todo = <<>>
           THEN Read(t, c, TRUE)
           ELSE Read(t, [c EXCEPT !.todo = Tail(@),
                                  !.result = @ \o SelectSeq(MapGet(cells, Head(c.todo)),
                                                    LAMBDA h : Vec3Within(c.box, pos[h]))],
                     FALSE)

\* QueryChunks, lines 141-153: one chunk; seen holds what result holds.
ReadChunks(t) ==
    /\ Reading(t, "QueryChunks")
    /\ LET c == call[t]
       IN  IF c.todo = <<>>
           THEN Read(t, c, TRUE)
           ELSE Read(t, [c EXCEPT !.todo = Tail(@),
                                  !.result = @ \o Unseen(MapGet(cells, cellForChunkPos(Head(c.todo))),
                                                         {c.result[i] : i \in 1..Len(c.result)})],
                     FALSE)

\* Count, lines 181-183: one key of the map, in no particular order.
ReadCount(t) ==
    /\ Reading(t, "Count")
    /\ LET c == call[t]
       IN  IF DOMAIN cells \subseteq c.visited
           THEN Read(t, c, TRUE)
           ELSE \E k \in DOMAIN cells \ c.visited :
                   Read(t, [c EXCEPT !.visited = @ \cup {k}, !.result = @ + Len(cells[k])],
                        FALSE)

\* The deferred g.mu.RUnlock().
RUnlock(t) ==
    /\ pc[t] = "runlock"
    /\ mu' = [mu EXCEPT !.readers = @ \ {t}]
    /\ pc' = [pc EXCEPT ![t] = "idle"]
    /\ call' = [call EXCEPT ![t] = NoCall]
    /\ UNCHANGED <<cellSize, cells, pos, lastPos, contract, misuse, last, committed>>

NextThreads ==
    \/ \E t \in Threads, h \in Handles : CallAdd(t, h)
    \/ \E t \in Threads, h \in Handles : CallRemove(t, h)
    \/ \E t \in Threads, h \in Handles, oldPos \in Positions, newPos \in Positions :
            CallUpdate(t, h, oldPos, newPos)
    \/ \E t \in Threads : CallClear(t)
    \/ \E t \in Threads, box \in NearbyBoxes : CallQueryNearby(t, box)
    \/ \E t \in Threads, chunks \in ChunkPairs : CallQueryChunks(t, chunks)
    \/ \E t \in Threads : CallCount(t)
    \/ \E t \in Threads : Lock(t)
    \/ \E t \in Threads : RLock(t)
    \/ \E t \in Threads : WriteAdd(t)
    \/ \E t \in Threads : WriteRemove(t)
    \/ \E t \in Threads : WriteUpdateOld(t)
    \/ \E t \in Threads : WriteUpdateNew(t)
    \/ \E t \in Threads : WriteClear(t)
    \/ \E t \in Threads : WriteClearMake(t)
    \/ \E t \in Threads : Unlock(t)
    \/ \E t \in Threads : ReadNearby(t)
    \/ \E t \in Threads : ReadChunks(t)
    \/ \E t \in Threads : ReadCount(t)
    \/ \E t \in Threads : RUnlock(t)

SpecThreads == InitThreads /\ [][NextThreads]_vars

\* A thread inside a call goes on running: the code between taking the lock
\* and the deferred release is a bounded loop without blocking calls. The
\* RWMutex lets no caller of Lock or RLock starve: a thread for which the
\* lock is free again and again gets it.
SpecThreadsFair ==
    /\ SpecThreads
    /\ \A t \in Threads :
        /\ WF_vars(WriteAdd(t) \/ WriteRemove(t) \/ WriteUpdateOld(t) \/ WriteUpdateNew(t)
                    \/ WriteClear(t) \/ WriteClearMake(t) \/ Unlock(t))
        /\ WF_vars(ReadNearby(t) \/ ReadChunks(t) \/ ReadCount(t) \/ RUnlock(t))
        /\ SF_vars(Lock(t))
        /\ SF_vars(RLock(t))

\* ------------------------------------------- the loops of QueryNearby
\* QueryNearby with its two loops turn by turn, their counters int32. The
\* box is given by the whole blocks of its corners, <<min, max>> with
\* min = <<int32(Min[0]), int32(Min[2])>>, as far out as an int32 reaches;
\* it spans the heights -1 to 1. The grid holds what InitLoops put in it.
LoopBoxes ==
    {<< <<-1, -1>>, <<1, 1>> >>,
     << <<1, 0>>, <<-1, 0>> >>,
     << <<MaxInt32 - 1, 0>>, <<MaxInt32, 0>> >>,
     << <<0, MaxInt32 - 1>>, <<0, MaxInt32>> >>}

\* x++ on an int32: the largest value is followed by the smallest.
Inc(x) == IF x = MaxInt32 THEN MinInt32 ELSE x + 1

\* cellForPos on a corner whose coordinates are already converted to int32.
cellForBlocks(b) == <<Quot(b[1], cellSize), Quot(b[2], cellSize)>>

\* Vec3Within for a box given in whole blocks: a handle coordinate c is
\* above b blocks. No handle is farther out than MaxCoord.
Above(c, b) ==
    IF b > MaxCoord THEN FALSE ELSE IF b < -MaxCoord THEN TRUE ELSE c > b * Scale
WithinBlocks(box, p) ==
    /\ Above(p[1], box[1][1]) /\ ~Above(p[1], box[2][1]) /\ p[1] # box[2][1] * Scale
    /\ Above(p[3], box[1][2]) /\ ~Above(p[3], box[2][2]) /\ p[3] # box[2][2] * Scale
    /\ p[2] > -Scale /\ p[2] < Scale

\* The grid was built and the handles of some set were added, each once.
RECURSIVE AddAll(_, _)
AddAll(m, hs) ==
    IF hs = {} THEN m
    ELSE LET h == CHOOSE k \in hs : TRUE
         IN  AddAll(AppendTo(m, cellForPos(<<1, 0, 0>>), h), hs \ {h})

InitLoops ==
    /\ cellSize \in 1..MaxCellSize
    /\ pos = [h \in Handles |-> <<1, 0, 0>>]
    /\ \E hs \in SUBSET Handles :
        /\ cells = AddAll(EmptyMap, hs)
        /\ lastPos = [h \in Handles |-> IF h \in hs THEN pos[h] ELSE NoPos]
    /\ contract = TRUE
    /\ misuse = 0
    /\ last = [op |-> "new", h |-> NoHandle, ret |-> NoRet, pre |-> -1, fresh |-> FALSE,
               cleared |-> FALSE]
    /\ mu = [writer |-> NoThread, readers |-> {}]
    /\ pc = [t \in Threads |-> "idle"]
    /\ call = [t \in Threads |-> NoCall]
    /\ committed = cells

\* Lines 107-108 and 113: the cells of the corners, an empty result.
\* visited is history: the cells the inner loop has been through.
LoopCall(t, box) ==
    Begin(t, [op |-> "QueryNearby", box |-> box,
              minCell |-> cellForBlocks(box[1]), maxCell |-> cellForBlocks(box[2]),
              at |-> "enter", x |-> 0, z |-> 0, result |-> <<>>, visited |-> <<>>],
          "rlock")

\* The thread is at a place of the code within the loops.
Looping(t, at) == Reading(t, "QueryNearby") /\ call[t].at = at

\* Line 115, x := minCell.X.
LoopEnter(t) ==
    /\ Looping(t, "enter")
    /\ Read(t, [call[t] EXCEPT !.at = "outer", !.x = call[t].minCell[1]], FALSE)

\* Line 115, x <= maxCell.X: into the inner loop with z := minCell.Z, or
\* out of the loops to return.
LoopOuter(t) ==
    /\ Looping(t, "outer")
    /\ LET c == call[t]
       IN  IF c.x <= c.maxCell[1]
           THEN Read(t, [c EXCEPT !.at = "inner", !.z = c.minCell[2]], FALSE)
           ELSE Read(t, [c EXCEPT !.at = "done"], TRUE)

\* Lines 116-127, z <= maxCell.Z: the bucket of cell (x, z) and z++, or out
\* of the inner loop and x++.
LoopInner(t) ==
    /\ Looping(t, "inner")
    /\ LET c == call[t]
           cell == <<c.x, c.z>>
           stray == {i \in 1..Len(c.visited) :
                       \/ c.visited[i][1] < c.minCell[1] \/ c.visited[i][1] > c.maxCell[1]
                       \/ c.visited[i][2] < c.minCell[2] \/ c.visited[i][2] > c.maxCell[2]}
       IN  IF c.z <= c.maxCell[2]
           THEN /\ Cardinality(stray) < MaxStray
                /\ Read(t, [c EXCEPT !.z = Inc(c.z),
                                     !.visited = Append(@, cell),
                                     !.result = @ \o SelectSeq(MapGet(cells, cell),
                                                    LAMBDA h : WithinBlocks(c.box, pos[h]))],
                        FALSE)
           ELSE Read(t, [c EXCEPT !.at = "outer", !.x = Inc(c.x)], FALSE)

NextLoops ==
    \/ \E t \in Threads, box \in LoopBoxes : LoopCall(t, box)
    \/ \E t \in Threads : RLock(t)
    \/ \E t \in Threads : LoopEnter(t)
    \/ \E t \in Threads : LoopOuter(t)
    \/ \E t \in Threads : LoopInner(t)
    \/ \E t \in Threads : RUnlock(t)

SpecLoops == InitLoops /\ [][NextLoops]_vars

\* A thread inside QueryNearby goes on running, and gets its read lock.
SpecLoopsFair ==
    /\ SpecLoops
    /\ \A t \in Threads :
            WF_vars(RLock(t) \/ LoopEnter(t) \/ LoopOuter(t) \/ LoopInner(t) \/ RUnlock(t))

\* ================================================================ claims
Range(s) == {s[i] : i \in 1..Len(s)}
NoDuplicate(s) == \A i, j \in 1..Len(s) : s[i] = s[j] => i = j
Bucket(cell) == MapGet(cells, cell)

\* C1: while the caller respects the contract, every handle added and not
\* removed is in exactly one slot of the whole grid, a slot of the bucket of
\* cellForPos of the position supplied at its last Add or Update, and no
\* other handle is in any bucket.
C1_OneSlotInItsCell ==
    contract =>
        \A h \in Handles :
            IF lastPos[h] = NoPos
            THEN SlotsOf(cells, h) = {}
            ELSE /\ Cardinality(SlotsOf(cells, h)) = 1
                 /\ \A s \in SlotsOf(cells, h) : s[1] = cellForPos(lastPos[h])

\* C1 witness: both handles were added, one was moved by a cell-changing
\* Update into the bucket of the other, all within the contract.
C1_Witness ==
    /\ contract
    /\ last.op = "Update" /\ last.ret = TRUE
    /\ \A h \in Handles : lastPos[h] # NoPos
    /\ \E c \in DOMAIN cells : Len(cells[c]) = 2
    /\ \E c \in DOMAIN cells : Len(cells[c]) = 0

\* C2 as stated: Count() is the number of handles added and not yet removed,
\* after every sequence of calls.
C2_CountIsAddedAlways == CountOf(cells) = Cardinality(Added)

\* C2 amended: Count() is the number of handles added and not yet removed
\* after every sequence of calls that respects the caller contract.
C2_CountIsAdded == contract => CountOf(cells) = Cardinality(Added)

\* C2 witness: Count() returned 2 after both handles were added to one cell
\* and an earlier call emptied another bucket.
C2_Witness ==
    /\ contract
    /\ last.op = "Count" /\ last.ret = 2
    /\ \E c \in DOMAIN cells : Len(cells[c]) = 2
    /\ \E c \in DOMAIN cells : Len(cells[c]) = 0

\* The cell range of box leaves out cell.
RangeExcludes(box, cell) ==
    LET minCell == cellForPos(box[1])
        maxCell == cellForPos(box[2])
    IN  \/ cell[1] < minCell[1] \/ cell[1] > maxCell[1]
        \/ cell[2] < minCell[2] \/ cell[2] > maxCell[2]

\* C3: a handle added at p and still there (its position and its last
\* supplied position are p) is returned by QueryNearby for every box that
\* contains p, and by none whose cell range leaves out cellForPos(p),
\* whatever the cell size and the sign of p's coordinates.
C3_AddThenQueryNearby ==
    \A h \in Handles :
        (contract /\ lastPos[h] # NoPos /\ pos[h] = lastPos[h]) =>
            \A box \in Boxes :
                /\ Vec3Within(box, pos[h])
                        => h \in Range(QueryNearbyOf(cells, pos, box))
                /\ RangeExcludes(box, cellForPos(pos[h]))
                        => h \notin Range(QueryNearbyOf(cells, pos, box))

\* C3 witness: right after Add(h) with h at a negative x, with the other
\* handle in the grid too, some box contains h's position and the cell range
\* of another leaves out its cell.
C3_Witness ==
    /\ contract /\ last.op = "Add"
    /\ pos[last.h][1] < 0 /\ pos[last.h] = lastPos[last.h]
    /\ CountOf(cells) = 2
    /\ \E box \in Boxes : Vec3Within(box, pos[last.h])
    /\ \E box \in Boxes :
            /\ RangeExcludes(box, cellForPos(pos[last.h]))
            /\ QueryNearbyOf(cells, pos, box) # <<>>

\* C4: a step Update(h, p1, p2) within the contract (p1 the position of h's
\* last Add/Update) with cellForPos(p1) # cellForPos(p2) returns true, takes
\* h out of the bucket of cellForPos(p1) and puts it in that of
\* cellForPos(p2); with h at p2, QueryNearby then returns h for no box that
\* contains p1 and not p2, and for every box that contains p2.
C4_MoveConsistency ==
    [][\A h \in Handles, p2 \in Positions :
        LET p1 == lastPos[h]
        IN  (/\ last'.op = "Update"
             /\ contract /\ p1 # NoPos
             /\ cellForPos(p1) # cellForPos(p2)
             /\ Update(h, p1, p2))
            => /\ last'.ret = TRUE
               /\ h \notin Range(MapGet(cells', cellForPos(p1)))
               /\ h \in Range(MapGet(cells', cellForPos(p2)))
               /\ pos'[h] = p2 =>
                    \A box \in Boxes :
                        /\ (Vec3Within(box, p1) /\ ~Vec3Within(box, p2))
                                => h \notin Range(QueryNearbyOf(cells', pos', box))
                        /\ Vec3Within(box, p2)
                                => h \in Range(QueryNearbyOf(cells', pos', box))
      ]_vars

\* C4 witness: a cell-changing Update within the contract has just returned
\* true, the handle is at its new position, a box contains that position and
\* another handle is in the grid.
C4_Witness ==
    /\ contract
    /\ last.op = "Update" /\ last.ret = TRUE
    /\ pos[last.h] = lastPos[last.h]
    /\ CountOf(cells) = 2
    /\ \E box \in Boxes : QueryNearbyOf(cells, pos, box) = <<last.h>>

C6_NoOpMove ==
    [][last'.op = "Update" =>
        \A h \in Handles, p1 \in Positions, p2 \in Positions :
            (cellForPos(p1) = cellForPos(p2) /\ Update(h, p1, p2))
                => (last'.ret = FALSE /\ cells' = cells)
      ]_vars

\* C6 witness: Update has just returned false for a handle that shares its
\* bucket with the other handle, which stands before it.
C6_Witness ==
    /\ last.op = "Update" /\ last.ret = FALSE
    /\ \E c \in DOMAIN cells : Len(cells[c]) = 2 /\ cells[c][2] = last.h

\* What a reading call returns when it reads the map m, all at once.
Returns(c, m) ==
    CASE c.op = "QueryNearby" -> QueryNearbyOf(m, pos, c.box)
      [] c.op = "QueryChunks" -> QueryChunksOf(m, c.chunks)
      [] c.op = "Count" -> CountOf(m)

\* What a writing call makes of the map m, all at once.
Makes(c, m) ==
    CASE c.op = "Add" -> AppendTo(m, c.cell, c.h)
      [] c.op = "Remove" -> RemoveFrom(m, c.cell, c.h)
      [] c.op = "Update" -> AppendTo(RemoveFrom(m, c.cell, c.h), c.newCell, c.h)
      [] c.op = "Clear" -> EmptyMap

\* C7: with the calls of several threads interleaved step by step, a writer
\* about to release the lock has made of the map left by the writer before
\* it what its call makes of it all at once, so the map at each release of
\* the write lock is the map after the completed mutations, one after the
\* other in the order of their locks; and a reader sees that map from its
\* first read to its return, never one that an Update or another writer has
\* half changed, and returns what its call returns on that map.
C7_Serialized ==
    \A t \in Threads :
        /\ pc[t] = "unlock" => cells = Makes(call[t], committed)
        /\ pc[t] \in {"read", "runlock"} => cells = committed
        /\ pc[t] = "runlock" => call[t].result = Returns(call[t], committed)

\* C7 witness: a query is about to return a handle that it read while an
\* Update of that handle by the other thread waits for the lock.
C7_Witness ==
    \E t \in Threads, u \in Threads :
        /\ pc[t] = "runlock" /\ call[t].op \in {"QueryNearby", "QueryChunks"}
        /\ pc[u] = "lock" /\ call[u].op = "Update"
        /\ call[u].h \in Range(call[t].result)

\* C8 as stated: in every reachable state no query returns a handle twice.
C8_NoDuplicateInResults ==
    /\ \A box \in Boxes : NoDuplicate(QueryNearbyOf(cells, pos, box))
    /\ \A chunks \in ChunkLists : NoDuplicate(QueryChunksOf(cells, chunks))
    /\ \A p \in Positions, radius \in Radii :
            NoDuplicate(QueryRadiusOf(cells, pos, p, radius))

\* The buckets of the cells named by chunks, one after the other.
RECURSIVE Buckets(_)
Buckets(chunks) ==
    IF chunks = <<>> THEN <<>>
    ELSE Bucket(<<Head(chunks)[1], Head(chunks)[2]>>) \o Buckets(Tail(chunks))

\* The first occurrences of the elements of s, in the order of s.
FirstOccurrences(s) ==
    LET keep == {i \in 1..Len(s) : \A j \in 1..(i - 1) : s[j] # s[i]}
        nth(k) == CHOOSE i \in keep : Cardinality({j \in keep : j < i}) = k - 1
    IN  [k \in 1..Cardinality(keep) |-> s[nth(k)]]

\* C9: QueryChunks(chunks) returns the handles of the buckets of the cells
\* named by chunks, chunk (x, z) naming cell (x, z), each once, in the order
\* of first encounter; absent cells and the empty list contribute nothing.
C9_QueryChunksUnion ==
    \A chunks \in ChunkLists :
        LET r == QueryChunksOf(cells, chunks)
        IN  /\ r = FirstOccurrences(Buckets(chunks))
            /\ NoDuplicate(r)
            /\ Range(r) = UNION {Range(Bucket(<<chunks[i][1], chunks[i][2]>>)) :
                                    i \in 1..Len(chunks)}

\* C9 witness: QueryChunks has just returned both handles of one bucket, as
\* it does for a list naming that bucket's cell twice.
C9_Witness ==
    /\ last.op = "QueryChunks"
    /\ \E chunks \in ChunkLists :
        /\ Len(chunks) = 2 /\ chunks[1] = chunks[2]
        /\ Len(Bucket(<<chunks[1][1], chunks[1][2]>>)) = 2
        /\ last.ret = QueryChunksOf(cells, chunks)
        /\ Len(last.ret) = 2

\* C10 as stated: within the contract, a handle is in the bucket of the cell
\* (floor(x / cellSize), floor(z / cellSize)) of its last supplied position.
C10_InFloorCell ==
    contract =>
        \A h \in Handles :
            lastPos[h] # NoPos =>
                h \in Range(Bucket(<<FloorDiv(lastPos[h][1], cellSize),
                                     FloorDiv(lastPos[h][3], cellSize)>>))

\* x / cellSize rounded toward zero, for a coordinate c.
TowardZero(c, size) ==
    IF c >= 0 THEN c \div (Scale * size) ELSE -((-c) \div (Scale * size))

\* C10 amended: within the contract, a handle is in the bucket of the cell
\* (x / cellSize, z / cellSize) of its last supplied position, each quotient
\* rounded toward zero: the floor for coordinates that are not negative.
C10_InTruncatedCell ==
    contract =>
        \A h \in Handles :
            lastPos[h] # NoPos =>
                h \in Range(Bucket(<<TowardZero(lastPos[h][1], cellSize),
                                     TowardZero(lastPos[h][3], cellSize)>>))

\* C10 witness: a handle has just been added or moved to a position whose
\* floor cell is not its truncated cell.
C10_Witness ==
    /\ contract
    /\ last.op \in {"Add", "Update"}
    /\ lastPos[last.h] # NoPos
    /\ FloorDiv(lastPos[last.h][1], cellSize) # TowardZero(lastPos[last.h][1], cellSize)
    /\ InGrid(cells, last.h)

\* C11: from a Clear until the next Add or cell-changing Update the map is
\* empty, Count() is 0 and no QueryNearby, QueryRadius or QueryChunks returns
\* a handle; Clear leaves the cell size as it was, and an Add(h) into the
\* cleared grid makes h be returned again by QueryChunks of its cell, by
\* QueryNearby of every box containing its position and by QueryRadius
\* around it.
C11_ClearEmpties ==
    /\ [](last.cleared =>
            /\ cells = EmptyMap
            /\ CountOf(cells) = 0
            /\ \A box \in Boxes : QueryNearbyOf(cells, pos, box) = <<>>
            /\ \A chunks \in ChunkLists : QueryChunksOf(cells, chunks) = <<>>
            /\ \A p \in Positions, radius \in Radii :
                    QueryRadiusOf(cells, pos, p, radius) = <<>>)
    /\ [][/\ last'.op = "Clear" => cellSize' = cellSize
          /\ (last.cleared /\ last'.op = "Add") =>
                LET h == last'.h
                IN  /\ h \in Range(QueryChunksOf(cells', <<cellForPos(pos'[h])>>))
                    /\ \A box \in Boxes :
                            Vec3Within(box, pos'[h])
                                => h \in Range(QueryNearbyOf(cells', pos', box))
                    /\ \A radius \in 1..MaxRadius :
                            h \in Range(QueryRadiusOf(cells', pos', pos'[h], radius))
         ]_vars

\* C11 witness: Clear has just emptied a grid that held both handles.
C11_Witness ==
    /\ last.op = "Clear" /\ last.pre = 2
    /\ last.cleared /\ cells = EmptyMap

\* C12: a step Remove(h) with h in no slot of the bucket of the cell of its
\* current position (never added, removed before, or moved to another cell
\* by the caller without Update) returns nothing and leaves the map, keys
\* and buckets, and so Count(), as they were.
C12_RemoveOfAbsent ==
    [][last'.op = "Remove" =>
        \A h \in Handles :
            (last'.h = h /\ h \notin Range(Bucket(cellForPos(pos[h]))))
                => /\ cells' = cells
                   /\ CountOf(cells') = CountOf(cells)
                   /\ last'.ret = NoRet
      ]_vars

\* C12 witness: Remove(h) has just returned with h still in the grid, in the
\* bucket of a cell that is no longer that of its position.
C12_Witness ==
    /\ last.op = "Remove"
    /\ InGrid(cells, last.h)
    /\ last.h \notin Range(Bucket(cellForPos(pos[last.h])))
    /\ CountOf(cells) = 2

\* The square of the distance from p to q, and q strictly inside the cube
\* of half side r blocks around p.
Dist2(p, q) ==
    (q[1] - p[1]) * (q[1] - p[1]) + (q[2] - p[2]) * (q[2] - p[2])
        + (q[3] - p[3]) * (q[3] - p[3])
Abs(n) == IF n >= 0 THEN n ELSE -n
InCube(p, q, r) ==
    \A i \in 1..3 : Abs(q[i] - p[i]) < Abs(r) * Scale

\* C13: in every state, for every centre p and radius r, QueryRadius(p, r)
\* returns what QueryNearby returns for the box from p - r to p + r on the
\* three axes; a handle standing where it was added, strictly inside that
\* cube, is returned whatever its distance from p.
C13_RadiusIsBox ==
    \A p \in Positions, radius \in Radii :
        LET r == Abs(radius) * Scale
            box == << <<p[1] - r, p[2] - r, p[3] - r>>, <<p[1] + r, p[2] + r, p[3] + r>> >>
            result == QueryRadiusOf(cells, pos, p, radius)
        IN  /\ result = QueryNearbyOf(cells, pos, box)
            /\ \A h \in Handles :
                    (contract /\ lastPos[h] # NoPos /\ pos[h] = lastPos[h]
                        /\ InCube(p, pos[h], radius))
                            => h \in Range(result)

\* C13 witness: QueryRadius has just returned a handle that is farther from
\* the centre than the radius, in a corner of the cube.
C13_Witness ==
    /\ last.op = "QueryRadius"
    /\ \E p \in Positions, radius \in Radii :
            /\ last.ret = QueryRadiusOf(cells, pos, p, radius)
            /\ \E h \in Range(last.ret) :
                    Dist2(p, pos[h]) > radius * Scale * radius * Scale

\* C14 as stated: within the contract, QueryNearby returns the handles of
\* the cell range whose position supplied at the last Add/Update is within
\* the box, also for a handle the caller has moved since.
C14_TestsStoredPosition ==
    contract =>
        \A box \in Boxes :
            QueryNearbyOf(cells, pos, box) = QueryNearbyOf(cells, lastPos, box)

\* The keys of the map within the cell range of box.
CellRange(box) ==
    LET minCell == cellForPos(box[1])
        maxCell == cellForPos(box[2])
    IN  {c \in DOMAIN cells : /\ minCell[1] <= c[1] /\ c[1] <= maxCell[1]
                              /\ minCell[2] <= c[2] /\ c[2] <= maxCell[2]}

\* C14 amended: QueryNearby returns exactly the handles in the buckets of
\* the cell range of the box whose current position, handle.data.Pos at the
\* time of the query, is within the box, once for every slot they have in
\* that range; a handle the caller has moved without Update is looked for in
\* the cell of its last supplied position and tested at its new one.
C14_TestsCurrentPosition ==
    \A box \in Boxes :
        LET result == QueryNearbyOf(cells, pos, box)
        IN  \A h \in Handles :
                Cardinality({i \in 1..Len(result) : result[i] = h})
                    = IF Vec3Within(box, pos[h])
                      THEN Cardinality({s \in SlotsOf(cells, h) : s[1] \in CellRange(box)})
                      ELSE 0

\* C14 witness: QueryNearby has just returned a handle that the caller moved
\* since its Add, for a box that does not contain the position it was added
\* at.
C14_Witness ==
    /\ contract /\ last.op = "QueryNearby"
    /\ \E box \in Boxes, h \in Handles :
            /\ last.ret = QueryNearbyOf(cells, pos, box)
            /\ h \in Range(last.ret)
            /\ lastPos[h] # NoPos /\ lastPos[h] # pos[h]
            /\ ~Vec3Within(box, lastPos[h])

\* Where a thread is between taking a lock and releasing it.
WriteSection == {"write", "append", "make", "unlock"}
ReadSection == {"read", "runlock"}

\* C15: at most one of Add, Remove, cell-changing Update and Clear is in
\* its write section at a time, and none while a QueryNearby, QueryChunks or
\* Count is in its read section; a thread in its write section holds the
\* write lock, one in its read section a read lock, and the map changes
\* only in a step of the thread holding the write lock; a thread outside
\* its call holds no lock; and a thread that waits for the lock gets it,
\* and every call returns.
C15_LockDiscipline ==
    /\ [](\A t \in Threads :
            /\ pc[t] \in WriteSection =>
                    /\ mu.writer = t /\ mu.readers = {}
                    /\ call[t].op \in {"Add", "Remove", "Update", "Clear"}
                    /\ \A u \in Threads \ {t} : pc[u] \notin WriteSection \cup ReadSection
            /\ pc[t] \in ReadSection =>
                    /\ t \in mu.readers /\ mu.writer = NoThread
                    /\ call[t].op \in {"QueryNearby", "QueryChunks", "Count"}
            /\ pc[t] \in {"idle", "lock", "rlock"} =>
                    (mu.writer # t /\ t \notin mu.readers))
    /\ [][cells' # cells =>
            (mu.writer # NoThread /\ pc[mu.writer] \in WriteSection /\ mu' = mu)]_vars
    /\ \A t \in Threads :
        /\ (pc[t] = "lock") ~> (pc[t] = "write")
        /\ (pc[t] = "rlock") ~> (pc[t] = "read")
        /\ (pc[t] # "idle") ~> (pc[t] = "idle")

\* C15 witness: both threads are reading a grid that holds a handle, each
\* with its read lock.
C15_Witness ==
    /\ \A t \in Threads : pc[t] = "read" /\ call[t].op \in {"QueryNearby", "Count"}
    /\ mu.readers = Threads
    /\ CountOf(cells) > 0

\* Coordinates from beyond the far handle position on one side of the
\* origin to beyond it on the other, every fraction of a block between.
Coords == -(MaxCoord + 1)..(MaxCoord + 1)

\* q is c / size rounded toward zero, said without a division: c lies in
\* the cell of size blocks that starts at q * size and stretches away from
\* zero, of whole blocks once its fraction is dropped.
IsTruncatedQuotient(q, c, size) ==
    LET w == size * Scale
    IN  IF c >= 0 THEN q >= 0 /\ q * w <= c /\ c < (q + 1) * w
        ELSE q <= 0 /\ (q - 1) * w < c /\ c <= q * w

\* C16: cellForPos(p) is (trunc(p.x) quot cellSize, trunc(p.z) quot cellSize),
\* conversion and division both toward zero; it does not depend on p.y, nor
\* on anything a call changes; every x with -cellSize < x < cellSize, and
\* no other, has cell coordinate 0.
C16_CellForPos ==
    /\ [](\A x \in Coords, z \in Coords :
            LET cell == cellForPos(<<x, 0, z>>)
            IN  /\ IsTruncatedQuotient(cell[1], x, cellSize)
                /\ IsTruncatedQuotient(cell[2], z, cellSize)
                /\ cell[1] = 0 <=> (-cellSize * Scale < x /\ x < cellSize * Scale)
                /\ \A y \in {-MaxCoord, 1} : cellForPos(<<x, y, z>>) = cell)
    /\ [][\A p \in Positions : cellForPos(p)' = cellForPos(p)]_vars

\* C16 witness: two handles, one a fraction of a block on the negative side
\* of the origin and one on the positive side, have been added and are in
\* the bucket of cell (0, 0).
C16_Witness ==
    /\ contract
    /\ \A h \in Handles : lastPos[h] = pos[h]
    /\ \E h \in Handles : pos[h][1] < 0 /\ pos[h][1] > -Scale
    /\ \E h \in Handles : pos[h][1] > 0
    /\ Len(Bucket(<<0, 0>>)) = 2

\* The keys of the map m whose bucket holds h.
BucketsOf(m, h) == {c \in DOMAIN m : h \in Range(m[c])}

C18_NoEmptyBucket == \A c \in DOMAIN cells : cells[c] # <<>>

\* after is before without its first slot holding h, the rest in order.
FirstCut(before, after, h) ==
    /\ Len(after) = Len(before) - 1
    /\ \E i \in 1..Len(before) :
        /\ before[i] = h
        /\ \A j \in 1..(i - 1) : before[j] # h /\ after[j] = before[j]
        /\ \A j \in i..Len(after) : after[j] = before[j + 1]

\* C19: a step Remove(h) with h in the bucket of the cell of its current
\* position takes the first slot holding h out of that bucket, the other
\* slots staying in their order, and changes no other bucket and no key; a
\* step Add(h) appends h to the bucket of the cell of its position, a new
\* bucket if the key is absent, whether h is in the grid or not, and changes
\* no other bucket.
C19_RemoveAndAddFrame ==
    [][\A h \in Handles :
        LET cell == cellForPos(pos[h])
        IN  /\ (last'.op = "Remove" /\ last'.h = h /\ h \in Range(Bucket(cell)))
                => /\ DOMAIN cells' = DOMAIN cells
                   /\ FirstCut(cells[cell], cells'[cell], h)
                   /\ \A c \in DOMAIN cells : c # cell => cells'[c] = cells[c]
            /\ (last'.op = "Add" /\ last'.h = h)
                => /\ DOMAIN cells' = DOMAIN cells \cup {cell}
                   /\ cells'[cell] = Bucket(cell) \o <<h>>
                   /\ \A c \in DOMAIN cells : c # cell => cells'[c] = cells[c]
      ]_vars

\* C19 witness: Remove(h) has just taken one slot of h out of a bucket that
\* held h twice and the other handle; the other handle and the later slot
\* of h are left, in that order.
C19_Witness ==
    /\ last.op = "Remove"
    /\ \E other \in Handles \ {last.h} :
            Bucket(cellForPos(pos[last.h])) = <<other, last.h>>
    /\ lastPos[last.h] = NoPos

\* s is the beginning of r.
IsPrefix(s, r) == Len(s) <= Len(r) /\ \A i \in 1..Len(s) : s[i] = r[i]

\* C20 as stated: QueryNearby goes through the cells from minCell to
\* maxCell, each once and no other, nothing when minCell is beyond maxCell
\* on an axis, also with a coordinate of maxCell the largest int32; it then
\* returns and releases its read lock.
C20_LoopsTerminate ==
    /\ [](\A t \in Threads :
            (pc[t] \in ReadSection /\ call[t].op = "QueryNearby") =>
                LET range == CellsVisited(call[t].minCell, call[t].maxCell)
                IN  /\ IsPrefix(call[t].visited, range)
                    /\ pc[t] = "runlock" =>
                            /\ call[t].visited = range
                            /\ range = <<>> => call[t].result = <<>>)
    /\ \A t \in Threads : (pc[t] = "rlock") ~> (pc[t] = "idle" /\ t \notin mu.readers)

====
